---- MODULE Spec2Model ----
(***************************************************************************)
(* Model of the swarm orchestrator of packages/agent-core:                 *)
(*   orchestration/swarm-orchestrator.ts  (runSwarmOrchestrator)           *)
(*   orchestration/swarm-routing.ts       (selectSwarmRoute)               *)
(*                                                                         *)
(* JavaScript objects are functions from field names to values; a field    *)
(* that is undefined is not in the DOMAIN.  Strings that the code only     *)
(* copies are TLA+ strings; strings it inspects are sequences: an error    *)
(* text is the sequence of its words (the maximal runs of \w characters,   *)
(* which is what the \b...\b patterns see) and an output is a sequence of  *)
(* characters.                                                             *)
(***************************************************************************)
EXTENDS Integers, Sequences, FiniteSets, TLC

VARIABLES
    options,              \* the SwarmOrchestratorOptions of this run (never changes)
    signal,               \* options.signal: "none" (absent), "clear" or "aborted"
    abortedAtStart,       \* whether the signal was aborted when the run was started
    now,                  \* Date.now() - wallStart
    idCounter,            \* number of ids createTaskId() has handed out
    estimatedTokensUsed,  \* let estimatedTokensUsed
    nextIndex,            \* let nextIndex (0-based, as in the code)
    summaries,            \* const summaries: the objects pushed, in push order
    outputs,              \* const outputs: the blocks pushed, in push order
    pc,                   \* per worker: "start", "awaitChild", "awaitItem", "done"
    local,                \* per worker: the locals of executePlanItem it is inside
    updates,              \* per plan index: the summaries handed to onChildUpdate
    calls,                \* per plan index: the inputs handed to runChild
    returns,              \* per plan index: the results runChild returned
    routed,               \* plan indices for which selectSwarmRoute was called
    result,               \* <<>> while the promise is pending, <<RunResult>> once resolved
    routeCall             \* a call of selectSwarmRoute made on its own: its arguments and,
                          \* once it returned, its result (the empty object when there is none)

vars == <<options, signal, abortedAtStart, now, idCounter, estimatedTokensUsed, nextIndex, summaries,
          outputs, pc, local, updates, calls, returns, routed, result, routeCall>>

(***************************************************************************)
(* Bounds of the model                                                     *)
(***************************************************************************)
MaxClock == 1           \* the clock is followed for this many ticks after wallStart
MaxAgentsRequested == 4 \* swarm.maxAgents ranges over undefined and 0..MaxAgentsRequested
MaxProviders == 2       \* a snapshot handed to selectSwarmRoute on its own has at most this many entries

(***************************************************************************)
(* Objects                                                                 *)
(***************************************************************************)
EmptyObject == [k \in {} |-> TRUE]
Has(o, k) == k \in DOMAIN o
\* { ...a, ...b }
Spread(a, b) == [k \in DOMAIN a \cup DOMAIN b |-> IF k \in DOMAIN b THEN b[k] ELSE a[k]]
\* JavaScript truthiness of a string modelled as a sequence
NonEmpty(s) == Len(s) > 0
Min(a, b) == IF a < b THEN a ELSE b
Max(a, b) == IF a > b THEN a ELSE b

(***************************************************************************)
(* swarm-routing.ts                                                        *)
(***************************************************************************)
Roles == <<"researcher", "coder", "reviewer">>

ROLE_PROVIDER_PREFERENCES ==
    [researcher |-> <<"openai", "anthropic", "google", "openrouter", "ollama">>,
     coder      |-> <<"anthropic", "openai", "deepseek", "google", "ollama">>,
     reviewer   |-> <<"openai", "anthropic", "google", "openrouter", "lmstudio">>]

\* Mutant: the connection status is not looked at
isProviderReady_AnyStatus(provider) ==
    /\ Has(provider, "selectedModelId")
    /\ provider.selectedModelId # ""

\* !!provider && provider.connectionStatus === 'connected' && !!provider.selectedModelId
isProviderReady(provider) ==
    /\ provider.connectionStatus = "connected"
    /\ Has(provider, "selectedModelId")
    /\ provider.selectedModelId # ""

\* providersById after the first loop: the last ready entry of each provider id
providersById(readyProviders) ==
    LET ids == {readyProviders[i].providerId :
                    i \in {j \in DOMAIN readyProviders : isProviderReady(readyProviders[j])}}
        last(id) == CHOOSE i \in DOMAIN readyProviders :
                       /\ readyProviders[i].providerId = id
                       /\ isProviderReady(readyProviders[i])
                       /\ \A j \in DOMAIN readyProviders :
                             (readyProviders[j].providerId = id
                                 /\ isProviderReady(readyProviders[j])) => j <= i
    IN  [id \in ids |-> readyProviders[last(id)]]

\* Mutant: instead of null, the defaults used for the summaries of stopped items
selectSwarmRoute_DefaultRoute(role, readyProviders, fallback) ==
    <<[providerId |-> IF Has(fallback, "providerId") THEN fallback.providerId ELSE "openai",
       modelId    |-> IF Has(fallback, "modelId") THEN fallback.modelId ELSE "unknown"]>>

\* Mutant: the fallback is used only if its provider has a ready entry
selectSwarmRoute_FallbackChecked(role, readyProviders, fallback) ==
    LET byId  == providersById(readyProviders)
        prefs == ROLE_PROVIDER_PREFERENCES[role]
        hits  == {i \in DOMAIN prefs : prefs[i] \in DOMAIN byId}
        ready == {i \in DOMAIN readyProviders : isProviderReady(readyProviders[i])}
    IN  IF hits # {}
        THEN LET p == byId[prefs[CHOOSE i \in hits : \A j \in hits : i <= j]]
             IN  <<[providerId |-> p.providerId, modelId |-> p.selectedModelId]>>
        ELSE IF /\ Has(fallback, "providerId") /\ fallback.providerId # ""
                /\ Has(fallback, "modelId") /\ fallback.modelId # ""
                /\ fallback.providerId \in DOMAIN byId
        THEN <<[providerId |-> fallback.providerId, modelId |-> fallback.modelId]>>
        ELSE IF ready = {}
        THEN <<>>
        ELSE LET first == readyProviders[CHOOSE i \in ready : \A j \in ready : i <= j]
             IN  <<[providerId |-> first.providerId, modelId |-> first.selectedModelId]>>

\* Mutant: without the last resort, the first ready entry of the snapshot
selectSwarmRoute_NoLastResort(role, readyProviders, fallback) ==
    LET byId  == providersById(readyProviders)
        prefs == ROLE_PROVIDER_PREFERENCES[role]
        hits  == {i \in DOMAIN prefs : prefs[i] \in DOMAIN byId}
    IN  IF hits # {}
        THEN LET p == byId[prefs[CHOOSE i \in hits : \A j \in hits : i <= j]]
             IN  <<[providerId |-> p.providerId, modelId |-> p.selectedModelId]>>
        ELSE IF /\ Has(fallback, "providerId") /\ fallback.providerId # ""
                /\ Has(fallback, "modelId") /\ fallback.modelId # ""
        THEN <<[providerId |-> fallback.providerId, modelId |-> fallback.modelId]>>
        ELSE <<>>

\* The result is <<>> for null and <<route>> for a route.
selectSwarmRoute(role, readyProviders, fallback) ==
    LET byId  == providersById(readyProviders)
        prefs == ROLE_PROVIDER_PREFERENCES[role]
        hits  == {i \in DOMAIN prefs : prefs[i] \in DOMAIN byId}
        ready == {i \in DOMAIN readyProviders : isProviderReady(readyProviders[i])}
    IN  IF hits # {}
        THEN LET p == byId[prefs[CHOOSE i \in hits : \A j \in hits : i <= j]]
             IN  <<[providerId |-> p.providerId, modelId |-> p.selectedModelId]>>
        ELSE IF /\ Has(fallback, "providerId") /\ fallback.providerId # ""
                /\ Has(fallback, "modelId") /\ fallback.modelId # ""
        THEN <<[providerId |-> fallback.providerId, modelId |-> fallback.modelId]>>
        ELSE IF ready = {}
        THEN <<>>
        ELSE LET first == readyProviders[CHOOSE i \in ready : \A j \in ready : i <= j]
             IN  <<[providerId |-> first.providerId, modelId |-> first.selectedModelId]>>

(***************************************************************************)
(* swarm-orchestrator.ts: constants and pure helpers                       *)
(***************************************************************************)
DEFAULT_MAX_AGENTS == 3
DEFAULT_TIMEOUT_MS == 600000
MinTokenEstimate == 128
CharsPerToken == 4
PreviewLength == 600
MaxAttempts == 2

\* The words the patterns /\b...\b/i accept, in lower case.
TRANSIENT_ERROR_PATTERNS ==
    {"timeout", "etimedout", "econnreset", "econnrefused", "temporary", "temporarily",
     "network", "aborted"}

\* The /i flag: the lower-case form of each word of the modelled error texts.
LowerCase(word) ==
    CASE word = "ECONNRESET" -> "econnreset"
      [] word = "Network"    -> "network"
      [] word = "Timeout"    -> "timeout"
      [] OTHER               -> word

isTransientError(r) ==
    IF ~Has(r, "error") \/ ~NonEmpty(r.error)
    THEN FALSE
    ELSE \E i \in DOMAIN r.error : LowerCase(r.error[i]) \in TRANSIENT_ERROR_PATTERNS

\* Math.ceil(length / 4)
CeilDiv(n, d) == (n + d - 1) \div d

estimateTokens(input) == Max(MinTokenEstimate, CeilDiv(input.length, CharsPerToken))

\* Length of the text each role's template puts around the prompt.
TemplateLength ==
    [researcher |-> 129, coder |-> 103, reviewer |-> 74]

buildPlan(prompt) ==
    [i \in DOMAIN Roles |->
        [role   |-> Roles[i],
         prompt |-> [template |-> Roles[i], about |-> prompt.text,
                     length |-> TemplateLength[Roles[i]] + prompt.length]]]

nextSummary(base) ==
    Spread(base, [status |-> IF Has(base, "status") THEN base.status ELSE "queued"])

\* Mutant: the lower clamp Math.max(1, ...) is missing
ClampMaxAgents_NoFloor(swarm) ==
    Min(IF Has(swarm, "maxAgents") THEN swarm.maxAgents ELSE DEFAULT_MAX_AGENTS,
        DEFAULT_MAX_AGENTS)

\* Math.max(1, Math.min(swarm.maxAgents ?? DEFAULT_MAX_AGENTS, DEFAULT_MAX_AGENTS))
ClampMaxAgents(swarm) ==
    Max(1, Min(IF Has(swarm, "maxAgents") THEN swarm.maxAgents ELSE DEFAULT_MAX_AGENTS,
               DEFAULT_MAX_AGENTS))

\* Mutant: the plan is not truncated to maxAgents
PlanOf_NoSlice(opts) == buildPlan(opts.prompt)

\* buildPlan(prompt).slice(0, maxAgents)
PlanOf(opts) ==
    LET all == buildPlan(opts.prompt)
    IN  SubSeq(all, 1, Min(ClampMaxAgents(opts.swarm), Len(all)))

plan == PlanOf(options)

\* Mutant: a single worker goes through the plan
WorkerCount_Single(opts) == 1

\* Array.from({ length: Math.min(maxAgents, plan.length) }, () => worker())
WorkerCount(opts) == Min(ClampMaxAgents(opts.swarm), Len(PlanOf(opts)))
Workers == 1..WorkerCount(options)

\* new Date().toISOString(): the orchestrator never reads a timestamp back, so only
\* its presence is modelled.
Timestamp == "iso-8601"

\* createTaskId(): the n-th id handed out
TaskId(n) == <<"task", n>>

\* Messages written by the orchestrator, as word sequences like the error texts.
MsgParentCancelled == <<"Parent", "task", "was", "cancelled">>
MsgWallBudget == <<"Soft", "wall-time", "budget", "reached", "before", "child", "started">>
MsgTokenBudget == <<"Soft", "token", "budget", "reached", "before", "child", "started">>
MsgNoRoute == <<"No", "route", "available", "from", "ready", "providers">>
MsgRetrying == <<"Transient", "error", "detected;", "retrying", "once">>
MsgTimedOut == <<"Child", "task", "timed", "out">>
MsgChildFailed == <<"Child", "failed">>

Whitespace == {" ", "\n", "\t"}

\* `## ${item.role}\n${result.output}`
Block(role, output) == <<"## ", role, "\n">> \o output

\* outputs.join('\n\n')
RECURSIVE Join(_)
Join(blocks) ==
    IF Len(blocks) = 0 THEN <<>>
    ELSE IF Len(blocks) = 1 THEN blocks[1]
    ELSE blocks[1] \o <<"\n", "\n">> \o Join(Tail(blocks))

\* String.prototype.trim()
Trim(s) ==
    LET keep == {i \in DOMAIN s : s[i] \notin Whitespace}
    IN  IF keep = {} THEN <<>>
        ELSE SubSeq(s, CHOOSE i \in keep : \A j \in keep : i <= j,
                       CHOOSE i \in keep : \A j \in keep : j <= i)

\* output.slice(0, 600)
Preview(output) == SubSeq(output, 1, Min(PreviewLength, Len(output)))

(***************************************************************************)
(* The caller: the options a run is started with, and what runChild may    *)
(* return                                                                  *)
(***************************************************************************)
ShortPrompt == [text |-> "Build a release checklist", length |-> 25]
LongPrompt == [text |-> "long prompt", length |-> 1000]

OpenAI == [providerId |-> "openai", connectionStatus |-> "connected",
           selectedModelId |-> "openai/gpt-5"]
LMStudio == [providerId |-> "lmstudio", connectionStatus |-> "connected",
             selectedModelId |-> "local-model"]
Disconnected == [providerId |-> "anthropic", connectionStatus |-> "disconnected",
                 selectedModelId |-> "claude"]
NoModel == [providerId |-> "google", connectionStatus |-> "connected"]

ParentOpenAI == [providerId |-> "openai", modelId |-> "openai/gpt-5"]

\* swarm.maxAgents: undefined, or 0..MaxAgentsRequested
MaxAgentsValues == {EmptyObject} \cup {[maxAgents |-> n] : n \in 0..MaxAgentsRequested}

\* swarm.budget: each field undefined or a number
Budgets ==
    {Spread(t, w) :
        t \in {EmptyObject} \cup {[maxEstimatedTokens |-> n] : n \in {0, 100, 300}},
        w \in {EmptyObject} \cup {[maxWallMs |-> n] : n \in 0..MaxClock}}

Run(swarm, providers, parentModel, prompt, sig) ==
    [options |-> [parentTaskId |-> "parent-1", prompt |-> prompt, swarm |-> swarm,
                  readyProviders |-> providers, parentModel |-> parentModel],
     signal |-> sig]

\* every maxAgents with a signal, clear or aborted, and one ready provider; the
\* smaller ones without a signal too
StructureRuns ==
    {Run(m, <<OpenAI>>, ParentOpenAI, ShortPrompt, sig) :
        m \in MaxAgentsValues, sig \in {"clear", "aborted"}}
    \cup
    {Run([maxAgents |-> n], <<OpenAI>>, ParentOpenAI, ShortPrompt, "none") :
        n \in 0..(DEFAULT_MAX_AGENTS - 1)}

\* every budget with two children; the token budgets that stop items, with three
BudgetRuns ==
    {Run([maxAgents |-> 2, budget |-> b], <<OpenAI>>, ParentOpenAI, prompt, sig) :
        b \in Budgets, prompt \in {ShortPrompt, LongPrompt}, sig \in {"none", "aborted"}}
    \cup
    {Run([budget |-> b], <<OpenAI>>, ParentOpenAI, prompt, "none") :
        b \in {x \in Budgets : Has(x, "maxEstimatedTokens") /\ x.maxEstimatedTokens # 0},
        prompt \in {ShortPrompt, LongPrompt}}

\* provider snapshots and fallbacks, with and without a route
RoutingRuns ==
    {Run(EmptyObject, providers, parentModel, ShortPrompt, "none") :
        providers \in {<<>>, <<Disconnected, NoModel>>},
        parentModel \in {EmptyObject, [providerId |-> "openai"]}}
    \cup
    {Run(EmptyObject, <<Disconnected, NoModel>>, ParentOpenAI, ShortPrompt, "none")}
    \cup
    {Run(EmptyObject, <<Disconnected, LMStudio>>, parentModel, ShortPrompt, "none") :
        parentModel \in {EmptyObject, ParentOpenAI}}
    \cup
    {Run([budget |-> [maxEstimatedTokens |-> 300]], <<NoModel>>, EmptyObject,
         ShortPrompt, "none")}
    \cup
    {Run([maxAgents |-> 1, budget |-> [maxWallMs |-> MaxClock]], <<>>, EmptyObject,
         ShortPrompt, "none")}

Runs == StructureRuns \cup BudgetRuns \cup RoutingRuns

\* The runs followed to their end under fairness: those of fewer than three
\* children (every budget is among them), those with an aborted signal or an
\* empty snapshot, and one of three children
\* whose signal may be aborted at any time.
FairRuns ==
    {run \in Runs :
        \/ Has(run.options.swarm, "maxAgents")
             /\ run.options.swarm.maxAgents < DEFAULT_MAX_AGENTS
        \/ run.signal = "aborted"
        \/ run.options.readyProviders = <<>>}
    \cup {Run(EmptyObject, <<OpenAI>>, ParentOpenAI, ShortPrompt, "clear")}

\* The results runChild returns in runs of several children ...
CoreResults ==
    {[status |-> "completed", output |-> <<"o", "k">>],
     [status |-> "failed", transient |-> TRUE],
     [status |-> "failed", error |-> <<"simulated", "failure">>, transient |-> FALSE]}

\* ... in runs of two children also a completed result without an output ...
PairResults == CoreResults \cup {[status |-> "completed"]}

\* ... and the further ones it returns in runs of a single child.
RichResults ==
    CoreResults \cup
    {[status |-> "completed"],
     [status |-> "timed_out"],
     [status |-> "completed", output |-> <<>>],
     [status |-> "completed", output |-> <<"o", "k", "\n">>],
     [status |-> "completed", output |-> <<" ">>],
     [status |-> "failed"],
     [status |-> "failed", error |-> <<>>],
     [status |-> "failed", error |-> <<"simulated", "failure">>],
     [status |-> "failed", error |-> <<"ECONNRESET">>],
     [status |-> "failed", error |-> <<"Network", "down">>, transient |-> FALSE],
     [status |-> "failed", error |-> <<"simulated", "failure">>, transient |-> TRUE],
     [status |-> "failed", error |-> <<"timeouts", "exceeded">>],
     [status |-> "timed_out", error |-> <<"Timeout">>, transient |-> TRUE],
     [status |-> "cancelled"],
     [status |-> "cancelled", error |-> <<"aborted">>]}

RunChildResults ==
    IF Len(plan) = 1 THEN RichResults
    ELSE IF Len(plan) = 2 THEN PairResults
    ELSE CoreResults

TerminalStatuses == {"completed", "failed", "cancelled", "timed_out"}

(***************************************************************************)
(* runSwarmOrchestrator                                                    *)
(***************************************************************************)
InitOf(runs) ==
    /\ \E run \in runs : options = run.options /\ signal = run.signal
    /\ abortedAtStart = (signal = "aborted")
    /\ now = 0
    /\ idCounter = 0
    /\ estimatedTokensUsed = 0
    /\ nextIndex = 0
    /\ summaries = <<>>
    /\ outputs = <<>>
    /\ pc = [w \in Workers |-> "start"]
    /\ local = [w \in Workers |-> EmptyObject]
    /\ updates = [i \in DOMAIN plan |-> <<>>]
    /\ calls = [i \in DOMAIN plan |-> <<>>]
    /\ returns = [i \in DOMAIN plan |-> <<>>]
    /\ routed = {}
    /\ result = <<>>
    /\ routeCall = EmptyObject

Init == InitOf(Runs)

budget == IF Has(options.swarm, "budget") THEN options.swarm.budget ELSE EmptyObject

\* Mutant: the wall-time gate is missing
WallBudgetReached_Never == FALSE

\* Mutant: a wall-time budget of 0 is a budget too
WallBudgetReached_ZeroIsBudget ==
    /\ Has(budget, "maxWallMs")
    /\ now >= budget.maxWallMs

\* budget?.maxWallMs && Date.now() - wallStart >= budget.maxWallMs
WallBudgetReached ==
    /\ Has(budget, "maxWallMs") /\ budget.maxWallMs # 0
    /\ now >= budget.maxWallMs

\* Mutant: the gate compares the total before this item's estimate is added
TokenBudgetReached_BeforeAdding(tokenEstimate) ==
    /\ Has(budget, "maxEstimatedTokens") /\ budget.maxEstimatedTokens # 0
    /\ estimatedTokensUsed > budget.maxEstimatedTokens

\* budget?.maxEstimatedTokens && estimatedTokensUsed + tokenEstimate > budget.maxEstimatedTokens
TokenBudgetReached(tokenEstimate) ==
    /\ Has(budget, "maxEstimatedTokens") /\ budget.maxEstimatedTokens # 0
    /\ estimatedTokensUsed + tokenEstimate > budget.maxEstimatedTokens

\* Mutant: the cancellation gate is missing
SignalAborted_Never == FALSE

\* signal?.aborted
SignalAborted == signal = "aborted"

\* parentModel?.providerId ?? 'openai' and parentModel?.modelId ?? 'unknown'
ParentRoute ==
    [providerId |-> IF Has(options.parentModel, "providerId")
                    THEN options.parentModel.providerId ELSE "openai",
     modelId    |-> IF Has(options.parentModel, "modelId")
                    THEN options.parentModel.modelId ELSE "unknown"]

\* Mutant: the status is left out, so that nextSummary fills in 'queued'
StoppedSummary_NoStatus(item, status, error) ==
    nextSummary([childId |-> TaskId(idCounter + 1), role |-> item.role,
                 providerId |-> ParentRoute.providerId, modelId |-> ParentRoute.modelId,
                 error |-> error])

\* The summary of an item stopped before it started (lines 125-132, 139-146,
\* 157-164, 173-180).
StoppedSummary(item, status, error) ==
    nextSummary([childId |-> TaskId(idCounter + 1), role |-> item.role,
                 providerId |-> ParentRoute.providerId, modelId |-> ParentRoute.modelId,
                 status |-> status, error |-> error])

\* Mutant: the summary of a stopped item is put at the head of the array
Stop_Unshift(w, index, s) ==
    /\ summaries' = <<s>> \o summaries
    /\ updates' = [updates EXCEPT ![index + 1] = Append(@, s)]
    /\ idCounter' = idCounter + 1
    /\ pc' = [pc EXCEPT ![w] = "awaitItem"]
    /\ UNCHANGED <<local, calls, outputs>>

\* summaries.push(s); onChildUpdate(s); return      (w then awaits executePlanItem)
Stop(w, index, s) ==
    /\ summaries' = Append(summaries, s)
    /\ updates' = [updates EXCEPT ![index + 1] = Append(@, s)]
    /\ idCounter' = idCounter + 1
    /\ pc' = [pc EXCEPT ![w] = "awaitItem"]
    /\ UNCHANGED <<local, calls, outputs>>

\* Mutant: the attempt number is not passed on
RunChildInput_FirstAttempt(l, attempt) ==
    [childId |-> l.childId, role |-> l.item.role, prompt |-> l.item.prompt,
     providerId |-> l.route.providerId, modelId |-> l.route.modelId,
     timeoutMs |-> DEFAULT_TIMEOUT_MS, attempt |-> 1]

\* The input of runChild for the attempt (lines 202-210)
RunChildInput(l, attempt) ==
    [childId |-> l.childId, role |-> l.item.role, prompt |-> l.item.prompt,
     providerId |-> l.route.providerId, modelId |-> l.route.modelId,
     timeoutMs |-> DEFAULT_TIMEOUT_MS, attempt |-> attempt]

\* The summary at the head of an attempt: { ...summary, status: 'running', startedAt }
RunningSummary(summary) == Spread(summary, [status |-> "running", startedAt |-> Timestamp])

\* Lines 186-195: the child id, the queued summary pushed and reported
QueuedSummary(item, route) ==
    nextSummary([childId |-> <<options.parentTaskId, "child", item.role, idCounter + 1>>,
                 role |-> item.role, providerId |-> route.providerId,
                 modelId |-> route.modelId, status |-> "queued"])

\* Lines 186-210: dispatch of a routed item up to the await of attempt 1
Dispatch(w, index, item, route) ==
    LET queued  == QueuedSummary(item, route)
        running == RunningSummary(queued)
        l == [index |-> index, item |-> item, childId |-> queued.childId, route |-> route,
              summary |-> running, attempt |-> 1]
    IN  \* the array keeps the object pushed here: the later assignments
        \* `summary = { ...summary, ... }` build new objects and leave it as it is
        /\ summaries' = Append(summaries, queued)
        /\ updates' = [updates EXCEPT ![index + 1] = @ \o <<queued, running>>]
        /\ calls' = [calls EXCEPT ![index + 1] = Append(@, RunChildInput(l, 1))]
        /\ idCounter' = idCounter + 1
        /\ local' = [local EXCEPT ![w] = l]
        /\ pc' = [pc EXCEPT ![w] = "awaitChild"]
        /\ UNCHANGED outputs

\* Mutant: the estimate is assigned, not added
TokensAfter_Assigned(tokenEstimate) == tokenEstimate

\* estimatedTokensUsed += tokenEstimate
TokensAfter(tokenEstimate) == estimatedTokensUsed + tokenEstimate

\* executePlanItem(plan[index]) up to its first await or its return
executePlanItem(w, index) ==
    LET item == plan[index + 1]
        tokenEstimate == estimateTokens(item.prompt)
        route == selectSwarmRoute(item.role, options.readyProviders, options.parentModel)
    IN  IF SignalAborted
        THEN /\ Stop(w, index, StoppedSummary(item, "cancelled", MsgParentCancelled))
             /\ UNCHANGED <<estimatedTokensUsed, routed>>
        ELSE IF WallBudgetReached
        THEN /\ Stop(w, index, StoppedSummary(item, "cancelled", MsgWallBudget))
             /\ UNCHANGED <<estimatedTokensUsed, routed>>
        ELSE IF TokenBudgetReached(tokenEstimate)
        THEN /\ Stop(w, index, StoppedSummary(item, "cancelled", MsgTokenBudget))
             /\ UNCHANGED <<estimatedTokensUsed, routed>>
        ELSE /\ estimatedTokensUsed' = TokensAfter(tokenEstimate)
             /\ routed' = routed \cup {index}
             /\ IF route = <<>>
                THEN Stop(w, index, StoppedSummary(item, "failed", MsgNoRoute))
                ELSE Dispatch(w, index, item, route[1])

\* Workers are started one after the other, each running up to its first await
\* before the next is created; continuations run only after the last was created.
MayRun(w) ==
    IF pc[w] = "start"
    THEN \A v \in Workers : v < w => pc[v] # "start"
    ELSE \A v \in Workers : pc[v] # "start"

\* Mutant: the cursor is advanced twice when an index is claimed
AdvanceCursor_Skip(n) == n + 2

\* Mutant: the cursor is not advanced when an index is claimed
AdvanceCursor_Stuck(n) == n

\* nextIndex += 1
AdvanceCursor(n) == n + 1

\* One pass of `while (nextIndex < plan.length)` in worker()
Worker(w) ==
    /\ w \in Workers
    /\ result = <<>>
    /\ pc[w] \in {"start", "awaitItem"}
    /\ MayRun(w)
    /\ IF nextIndex < Len(plan)
       THEN /\ nextIndex' = AdvanceCursor(nextIndex)
            /\ executePlanItem(w, nextIndex)
       ELSE /\ pc' = [pc EXCEPT ![w] = "done"]
            /\ UNCHANGED <<idCounter, estimatedTokensUsed, nextIndex, summaries, outputs,
                           local, updates, calls, routed>>
    /\ UNCHANGED <<options, signal, abortedAtStart, now, returns, result>>
    /\ UNCHANGED routeCall

\* Mutant: a matching error text counts as transient whatever the flag says
Transient_PatternWins(r) == isTransientError(r) \/ (Has(r, "transient") /\ r.transient)

\* result.transient ?? isTransientError(result.error)
Transient(r) == IF Has(r, "transient") THEN r.transient ELSE isTransientError(r)

\* Mutant: no retry once the signal is aborted
ShouldRetry_UnlessAborted(attempt, r) ==
    attempt = 1 /\ r.status = "failed" /\ Transient(r) /\ ~SignalAborted

\* Mutant: no retry once the wall-time budget is reached
ShouldRetry_WithinBudget(attempt, r) ==
    attempt = 1 /\ r.status = "failed" /\ Transient(r) /\ ~WallBudgetReached

\* Mutant: the test result.status === 'failed' is missing
ShouldRetry_AnyStatus(attempt, r) == attempt = 1 /\ Transient(r)

\* Mutant: every first failure is retried, transient or not
ShouldRetry_AnyFailure(attempt, r) == attempt = 1 /\ r.status = "failed"

\* Mutant: the test attempt === 1 is missing
ShouldRetry_AnyAttempt(attempt, r) == r.status = "failed" /\ Transient(r)

\* attempt === 1 && result.status === 'failed' && transient
ShouldRetry(attempt, r) == attempt = 1 /\ r.status = "failed" /\ Transient(r)

\* Mutant: ?? instead of ||, so that an empty error text is kept
ErrorOf_Nullish(r) ==
    IF Has(r, "error") THEN r.error
    ELSE IF r.status = "timed_out" THEN MsgTimedOut ELSE MsgChildFailed

\* result.error || (result.status === 'timed_out' ? 'Child task timed out' : 'Child failed')
ErrorOf(r) ==
    IF Has(r, "error") /\ NonEmpty(r.error) THEN r.error
    ELSE IF r.status = "timed_out" THEN MsgTimedOut ELSE MsgChildFailed

\* { ...summary, status: 'completed', completedAt, outputPreview }
CompletedSummary(summary, r) ==
    Spread(Spread([k \in DOMAIN summary \ {"outputPreview"} |-> summary[k]],
                  [status |-> "completed", completedAt |-> Timestamp]),
           IF Has(r, "output") /\ NonEmpty(r.output)
           THEN [outputPreview |-> Preview(r.output)] ELSE EmptyObject)

\* { ...summary, status: 'running', error: 'Transient error detected; retrying once' }
RetrySummary(summary) == Spread(summary, [status |-> "running", error |-> MsgRetrying])

\* Mutant: every result that is not completed ends the child failed
TerminalSummary_AlwaysFailed(summary, r) ==
    Spread(summary, [status |-> "failed", completedAt |-> Timestamp, error |-> ErrorOf(r)])

\* Mutant: the terminal summary does not take the status of the result
TerminalSummary_KeepsStatus(summary, r) ==
    Spread(summary, [completedAt |-> Timestamp, error |-> ErrorOf(r)])

\* { ...summary, status: result.status, completedAt, error: ... }
TerminalSummary(summary, r) ==
    Spread(summary, [status |-> r.status, completedAt |-> Timestamp, error |-> ErrorOf(r)])

\* Mutant: the block is put in front (unshift instead of push)
OutputsAfter_Unshift(role, r) ==
    IF Has(r, "output") /\ NonEmpty(r.output)
    THEN <<Block(role, r.output)>> \o outputs
    ELSE outputs

\* Mutant: the block is pushed whether or not there is an output
OutputsAfter_Always(role, r) ==
    Append(outputs, Block(role, IF Has(r, "output") THEN r.output ELSE <<>>))

\* if (result.output) outputs.push(...)
OutputsAfter(role, r) ==
    IF Has(r, "output") /\ NonEmpty(r.output)
    THEN Append(outputs, Block(role, r.output))
    ELSE outputs

\* runChild returns r to worker w: the rest of the loop body (lines 212-242) and,
\* on a retry, the head of the next pass up to its await (lines 197-210)
RunChildReturns(w, r) ==
    LET l == local[w]
        i == l.index + 1
    IN  /\ w \in Workers
        /\ result = <<>>
        /\ pc[w] = "awaitChild"
        /\ MayRun(w)
        /\ r \in RunChildResults
        /\ returns' = [returns EXCEPT ![i] = Append(@, r)]
        /\ IF r.status = "completed"
           THEN LET done == CompletedSummary(l.summary, r)
                IN  /\ updates' = [updates EXCEPT ![i] = Append(@, done)]
                    /\ outputs' = OutputsAfter(l.item.role, r)
                    /\ local' = [local EXCEPT ![w] = [l EXCEPT !.summary = done]]
                    /\ pc' = [pc EXCEPT ![w] = "awaitItem"]
                    /\ UNCHANGED calls
           ELSE IF ShouldRetry(l.attempt, r)
           THEN LET retry == RetrySummary(l.summary)
                    again == RunningSummary(retry)
                IN  IF l.attempt + 1 <= MaxAttempts
                    THEN /\ updates' = [updates EXCEPT ![i] = @ \o <<retry, again>>]
                         /\ calls' = [calls EXCEPT
                                         ![i] = Append(@, RunChildInput(l, l.attempt + 1))]
                         /\ local' = [local EXCEPT ![w] =
                                         [l EXCEPT !.summary = again,
                                                   !.attempt = l.attempt + 1]]
                         /\ UNCHANGED <<pc, outputs>>
                    ELSE /\ updates' = [updates EXCEPT ![i] = Append(@, retry)]
                         /\ local' = [local EXCEPT ![w] = [l EXCEPT !.summary = retry]]
                         /\ pc' = [pc EXCEPT ![w] = "awaitItem"]
                         /\ UNCHANGED <<calls, outputs>>
           ELSE LET ended == TerminalSummary(l.summary, r)
                IN  /\ updates' = [updates EXCEPT ![i] = Append(@, ended)]
                    /\ local' = [local EXCEPT ![w] = [l EXCEPT !.summary = ended]]
                    /\ pc' = [pc EXCEPT ![w] = "awaitItem"]
                    /\ UNCHANGED <<calls, outputs>>
        /\ UNCHANGED <<options, signal, abortedAtStart, now, idCounter, estimatedTokensUsed, nextIndex,
                       summaries, routed, result, routeCall>>

\* summaries.some((child) => child.status !== 'completed')
Partial(list) == \E i \in DOMAIN list : list[i].status # "completed"

\* Mutant: Promise.race instead of Promise.all
AllWorkersDone_Race == \E w \in Workers : pc[w] = "done"

\* await Promise.all(workers)
AllWorkersDone == \A w \in Workers : pc[w] = "done"

\* Lines 257-262, once every worker's promise is fulfilled
Resolve ==
    /\ result = <<>>
    /\ AllWorkersDone
    /\ result' = <<[combinedOutput |-> Trim(Join(outputs)),
                    childSummaries |-> summaries,
                    partial |-> Partial(summaries)]>>
    /\ UNCHANGED <<options, signal, abortedAtStart, now, idCounter, estimatedTokensUsed, nextIndex,
                   summaries, outputs, pc, local, updates, calls, returns, routed, routeCall>>

\* Time passes (the clock is followed up to MaxClock)
Tick ==
    /\ result = <<>>
    /\ now < MaxClock
    /\ now' = now + 1
    /\ UNCHANGED <<options, signal, abortedAtStart, idCounter, estimatedTokensUsed, nextIndex, summaries,
                   outputs, pc, local, updates, calls, returns, routed, result, routeCall>>

\* The caller aborts the signal
Abort ==
    /\ result = <<>>
    /\ signal = "clear"
    /\ signal' = "aborted"
    /\ UNCHANGED <<options, abortedAtStart, now, idCounter, estimatedTokensUsed, nextIndex, summaries,
                   outputs, pc, local, updates, calls, returns, routed, result, routeCall>>

Next ==
    \/ \E w \in Workers : Worker(w)
    \/ \E w \in Workers : \E r \in RichResults : RunChildReturns(w, r)
    \/ Resolve
    \/ Tick
    \/ Abort

Spec == Init /\ [][Next]_vars

\* A step of the orchestrator or of runChild, as opposed to one of the clock or of
\* the caller's signal
Progress ==
    \/ \E w \in Workers : Worker(w)
    \/ \E w \in Workers : \E r \in RichResults : RunChildReturns(w, r)
    \/ Resolve

\* The event loop runs a continuation that is ready, and every runChild call returns.
FairSpec == InitOf(FairRuns) /\ [][Next]_vars /\ WF_vars(Progress)

resolved == result # <<>>

(***************************************************************************)
(* selectSwarmRoute called on its own                                      *)
(***************************************************************************)
\* The entries of the snapshots: providers of the preference lists (openrouter is
\* preferred for two roles, lmstudio for one), connected with no model, an empty
\* one or one of two models, or disconnected with a model.
ProviderEntries ==
    {Spread([providerId |-> id, connectionStatus |-> "connected"], m) :
        id \in {"openai", "anthropic", "openrouter", "lmstudio"},
        m \in {EmptyObject} \cup {[selectedModelId |-> x] : x \in {"", "model-a", "model-b"}}}
    \cup
    {[providerId |-> id, connectionStatus |-> "disconnected", selectedModelId |-> "model-a"] :
        id \in {"openai", "anthropic", "openrouter", "lmstudio"}}

Snapshots == UNION {[1..n -> ProviderEntries] : n \in 0..MaxProviders}

\* fallback: undefined (as the empty object), with one field, with an empty field,
\* or with both, of a provider the snapshot never has or of one it may have
Fallbacks ==
    {EmptyObject, [providerId |-> "deepseek"], [modelId |-> "parent-model"],
     [providerId |-> "deepseek", modelId |-> ""],
     [providerId |-> "deepseek", modelId |-> "parent-model"],
     [providerId |-> "openrouter", modelId |-> "parent-model"]}

RouteCalls ==
    {[role |-> role, readyProviders |-> providers, fallback |-> fallback] :
        role \in {Roles[i] : i \in DOMAIN Roles},
        providers \in Snapshots,
        fallback \in Fallbacks}

\* No run is going on: the arguments of the call are all there is.
RouteInit ==
    /\ options = Run(EmptyObject, <<>>, EmptyObject, ShortPrompt, "none").options
    /\ signal = "none"
    /\ abortedAtStart = FALSE
    /\ now = 0
    /\ idCounter = 0
    /\ estimatedTokensUsed = 0
    /\ nextIndex = 0
    /\ summaries = <<>>
    /\ outputs = <<>>
    /\ pc = [w \in Workers |-> "start"]
    /\ local = [w \in Workers |-> EmptyObject]
    /\ updates = [i \in DOMAIN plan |-> <<>>]
    /\ calls = [i \in DOMAIN plan |-> <<>>]
    /\ returns = [i \in DOMAIN plan |-> <<>>]
    /\ routed = {}
    /\ result = <<>>
    /\ routeCall \in RouteCalls

\* selectSwarmRoute(role, readyProviders, fallback) returns
RouteReturns ==
    /\ Has(routeCall, "role")
    /\ ~Has(routeCall, "route")
    /\ routeCall' = Spread(routeCall,
                           [route |-> selectSwarmRoute(routeCall.role, routeCall.readyProviders,
                                                       routeCall.fallback)])
    /\ UNCHANGED <<options, signal, abortedAtStart, now, idCounter, estimatedTokensUsed,
                   nextIndex, summaries, outputs, pc, local, updates, calls, returns, routed,
                   result>>

RouteSpec == RouteInit /\ [][RouteReturns]_vars

(***************************************************************************)
(* What the claims speak of                                                *)
(***************************************************************************)
Children == DOMAIN plan
returned == result[1]
StatusesOf(i) == [k \in DOMAIN updates[i] |-> updates[i][k].status]
LastUpdate(i) == updates[i][Len(updates[i])]
LastReturn(i) == returns[i][Len(returns[i])]
Dispatched(i) == calls[i] # <<>>
Retried(i) == Len(calls[i]) = 2
\* the item was stopped at a gate: it got an update but runChild was never called
Gated(i) == updates[i] # <<>> /\ calls[i] = <<>>
IsPrefix(s, t) == Len(s) <= Len(t) /\ SubSeq(t, 1, Len(s)) = s
\* the orderings of a set of children
Orderings(S) ==
    {o \in [1..Cardinality(S) -> S] : \A a, b \in 1..Cardinality(S) : o[a] = o[b] => a = b}

(***************************************************************************)
(* C1: when the run resolves, childSummaries has exactly one entry per     *)
(* plan item and every entry has a terminal status: none is still queued   *)
(* or running.                                                             *)
(***************************************************************************)
C1_ReturnedSummariesTerminal ==
    resolved =>
        /\ Len(returned.childSummaries) = Len(plan)
        /\ \A i \in Children :
              /\ returned.childSummaries[i].role = plan[i].role
              /\ returned.childSummaries[i].status \in TerminalStatuses

(***************************************************************************)
(* C2: the returned partial flag is true if and only if some child's       *)
(* terminal status (the last one reported for it) is not completed.        *)
(***************************************************************************)
C2_PartialIffSomeChildNotCompleted ==
    resolved =>
        (returned.partial <=> \E i \in Children : LastUpdate(i).status # "completed")

(***************************************************************************)
(* C3: the plan length is maxAgents (3 when absent) clamped to [1, 3], no  *)
(* more summaries than plan items are ever pushed, and the returned        *)
(* childSummaries has exactly the plan length.                             *)
(***************************************************************************)
RequestedAgents ==
    IF Has(options.swarm, "maxAgents") THEN options.swarm.maxAgents ELSE DEFAULT_MAX_AGENTS

C3_LengthIsClampedMaxAgents ==
    /\ Len(plan) = (IF RequestedAgents < 1 THEN 1
                    ELSE IF RequestedAgents > 3 THEN 3 ELSE RequestedAgents)
    /\ Len(summaries) <= Len(plan)
    /\ resolved => Len(returned.childSummaries) = Len(plan)

\* A run asked for more agents than allowed resolves after a gate stopped one item
\* and another was retried.
C3_Witness ==
    /\ resolved
    /\ RequestedAgents > 3
    /\ Len(returned.childSummaries) = 3
    /\ \E i, j \in Children : Gated(i) /\ Retried(j)

(***************************************************************************)
(* C4: runChild is invoked at most twice for any plan item, so at most     *)
(* 2 * plan length times in a run.                                         *)
(***************************************************************************)
RECURSIVE TotalCalls(_)
TotalCalls(n) == IF n = 0 THEN 0 ELSE Len(calls[n]) + TotalCalls(n - 1)

C4_AtMostTwoInvocations ==
    /\ \A i \in Children : Len(calls[i]) <= 2
    /\ TotalCalls(Len(plan)) <= 2 * Len(plan)

\* Every child of a three-item plan was invoked twice.
C4_Witness == Len(plan) = 3 /\ TotalCalls(Len(plan)) = 6

(***************************************************************************)
(* C5: a child gets a second runChild invocation if and only if its first  *)
(* one returned failed and was judged transient; a non-transient first     *)
(* failure ends the child failed after one invocation; whatever the second *)
(* invocation returns, a transient failure included, ends the child.       *)
(***************************************************************************)
C5_SecondAttemptIffTransientFailure ==
    \A i \in Children :
        /\ Retried(i) <=>
              (returns[i] # <<>> /\ returns[i][1].status = "failed"
                  /\ Transient(returns[i][1]))
        /\ (returns[i] # <<>> /\ returns[i][1].status = "failed"
               /\ ~Transient(returns[i][1])) =>
              (Len(calls[i]) = 1 /\ LastUpdate(i).status = "failed")
        /\ Len(returns[i]) = 2 =>
              (Len(calls[i]) = 2 /\ LastUpdate(i).status = returns[i][2].status)

\* A child's second attempt failed transiently, and that ended the child.
C5_Witness ==
    \E i \in Children :
        /\ Len(returns[i]) = 2
        /\ returns[i][2].status = "failed" /\ Transient(returns[i][2])
        /\ LastUpdate(i).status = "failed"

(***************************************************************************)
(* C6: when every runChild call returns, the run eventually resolves, and  *)
(* once it has resolved every worker is done and no runChild call is       *)
(* pending.                                                                *)
(***************************************************************************)
NothingPending ==
    /\ \A w \in Workers : pc[w] = "done"
    /\ \A i \in Children : Len(returns[i]) = Len(calls[i])

C6_RunResolves == <>resolved /\ [](resolved => NothingPending)

\* A three-child run resolved after a retry and with a failed child.
C6_Witness ==
    /\ resolved
    /\ Len(plan) = 3
    /\ \E i, j \in Children : Retried(i) /\ LastUpdate(j).status = "failed"

(***************************************************************************)
(* C7 as claimed: combinedOutput is one block for each child that ended    *)
(* completed, and nothing else.                                            *)
(***************************************************************************)
CompletedChildren == {i \in Children : updates[i] # <<>> /\ LastUpdate(i).status = "completed"}
OutputOf(i) == IF Has(LastReturn(i), "output") THEN LastReturn(i).output ELSE <<>>
BlocksOf(S) ==
    {Trim(Join([k \in 1..Cardinality(S) |-> Block(plan[o[k]].role, OutputOf(o[k]))])) :
        o \in Orderings(S)}

C7_OneBlockPerCompletedChild ==
    resolved => returned.combinedOutput \in BlocksOf(CompletedChildren)

(***************************************************************************)
(* C7 as amended: combinedOutput is the trimmed join of one block for each *)
(* child that ended completed with a non-empty output, and nothing else; a *)
(* completed child whose output is empty or missing has no block.          *)
(***************************************************************************)
C7_OneBlockPerCompletedOutput ==
    resolved =>
        returned.combinedOutput \in
            BlocksOf({i \in CompletedChildren : NonEmpty(OutputOf(i))})

\* Two children completed with an output, one of them on its second attempt, and a
\* third did not complete.
C7_Witness ==
    /\ resolved
    /\ Len(outputs) = 2
    /\ \E i \in CompletedChildren : Retried(i)
    /\ \E i \in Children : Dispatched(i) /\ i \notin CompletedChildren

(***************************************************************************)
(* C8: if the signal is aborted when the run starts, no route is computed, *)
(* runChild is never invoked, every update reports cancelled with 'Parent  *)
(* task was cancelled', and the run resolves with every child cancelled    *)
(* and an empty combinedOutput.                                            *)
(***************************************************************************)
IsParentCancelled(s) == s.status = "cancelled" /\ s.error = MsgParentCancelled

C8_PreAbortedCancelsAll ==
    abortedAtStart =>
        /\ routed = {}
        /\ \A i \in Children : calls[i] = <<>>
        /\ \A i \in Children : \A k \in DOMAIN updates[i] : IsParentCancelled(updates[i][k])
        /\ resolved =>
              /\ \A i \in Children : Len(updates[i]) = 1
              /\ Len(returned.childSummaries) = Len(plan)
              /\ \A k \in DOMAIN returned.childSummaries :
                    IsParentCancelled(returned.childSummaries[k])
              /\ returned.combinedOutput = <<>>

\* A pre-aborted run of three items resolved.
C8_Witness == abortedAtStart /\ resolved /\ Len(plan) = 3

(***************************************************************************)
(* C9 as claimed: for every child the sink sees queued, running,           *)
(* optionally one more running for the retry, then one terminal status.    *)
(***************************************************************************)
ClaimedOrders ==
    {<<"queued", "running", t>> : t \in TerminalStatuses}
    \cup {<<"queued", "running", "running", t>> : t \in TerminalStatuses}

C9_SinkOrderAsClaimed ==
    \A i \in Children :
        /\ \E o \in ClaimedOrders : IsPrefix(StatusesOf(i), o)
        /\ resolved => StatusesOf(i) \in ClaimedOrders

(***************************************************************************)
(* C9 as amended: for a child that passed the gates the sink sees queued,  *)
(* running, then on a retry two more running updates (the retry note and   *)
(* the start of the second attempt), then exactly one terminal status and  *)
(* nothing after it; a child stopped at a gate gets a single update, its   *)
(* terminal one.                                                           *)
(***************************************************************************)
C9_SinkOrder ==
    \A i \in Children :
        LET seq == StatusesOf(i)
            ended == returns[i] # <<>> /\ Len(returns[i]) = Len(calls[i])
        IN  /\ ~Dispatched(i) =>
                  (seq = <<>> \/ \E t \in {"cancelled", "failed"} : seq = <<t>>)
            /\ (Dispatched(i) /\ ~Retried(i)) =>
                  IF ended THEN \E t \in TerminalStatuses : seq = <<"queued", "running", t>>
                  ELSE seq = <<"queued", "running">>
            /\ Retried(i) =>
                  IF ended
                  THEN \E t \in TerminalStatuses :
                          seq = <<"queued", "running", "running", "running", t>>
                  ELSE seq = <<"queued", "running", "running", "running">>
            /\ resolved => seq # <<>> /\ (Dispatched(i) => ended)

\* A run resolved in which one child was retried and another was stopped at a gate.
C9_Witness ==
    /\ resolved
    /\ \E i, j \in Children : Retried(i) /\ Len(updates[i]) = 5 /\ Gated(j)

(***************************************************************************)
(* C10: every summary with a terminal status, as handed to the sink and as *)
(* returned, carries completedAt.                                          *)
(***************************************************************************)
HasCompletedAt(s) == s.status \in TerminalStatuses => Has(s, "completedAt")

C10_TerminalHasCompletedAt ==
    /\ \A i \in Children : \A k \in DOMAIN updates[i] : HasCompletedAt(updates[i][k])
    /\ resolved =>
          \A k \in DOMAIN returned.childSummaries : HasCompletedAt(returned.childSummaries[k])

(***************************************************************************)
(* C11 as claimed: when there is no ready provider and no fallback, the    *)
(* child ends failed with 'No route available from ready providers' and    *)
(* runChild is never invoked for it.                                       *)
(***************************************************************************)
NoProviderNoFallback ==
    /\ \A k \in DOMAIN options.readyProviders :
          \/ options.readyProviders[k].connectionStatus # "connected"
          \/ ~Has(options.readyProviders[k], "selectedModelId")
          \/ options.readyProviders[k].selectedModelId = ""
    /\ ~(Has(options.parentModel, "providerId") /\ Has(options.parentModel, "modelId"))

IsNoRouteFailure(s) == s.status = "failed" /\ s.error = MsgNoRoute

C11_NoRouteAlwaysFails ==
    NoProviderNoFallback =>
        \A i \in Children :
            /\ calls[i] = <<>>
            /\ updates[i] # <<>> => IsNoRouteFailure(LastUpdate(i))

(***************************************************************************)
(* C11 as amended: when there is no ready provider and no complete         *)
(* fallback, an item that reaches the routing step (the signal is not      *)
(* aborted and no budget gate stops it first) ends failed with 'No route   *)
(* available from ready providers' as its only update, and runChild is     *)
(* never invoked for it; an item stopped at an earlier gate ends cancelled *)
(* instead.  The failure does not end the run: every other item is still   *)
(* claimed and taken through its own gates, and in a run that has a route  *)
(* every item that reaches the routing step is handed to runChild.         *)
(***************************************************************************)
C11_NoRouteFailsAtRouting ==
    \A i \in Children :
        /\ NoProviderNoFallback =>
              /\ calls[i] = <<>>
              /\ (i - 1) \in routed =>
                    (Len(updates[i]) = 1 /\ IsNoRouteFailure(updates[i][1]))
              /\ (updates[i] # <<>> /\ (i - 1) \notin routed) =>
                    (Len(updates[i]) = 1 /\ updates[i][1].status = "cancelled")
        /\ (~NoProviderNoFallback /\ (i - 1) \in routed) => Dispatched(i)
        /\ resolved => updates[i] # <<>>

\* A run without any route resolved: its first two items failed at the routing
\* step and the third was still taken through the gates, which stopped it.
C11_Witness ==
    /\ resolved
    /\ NoProviderNoFallback
    /\ Len(plan) = 3
    /\ IsNoRouteFailure(LastUpdate(1)) /\ IsNoRouteFailure(LastUpdate(2))
    /\ LastUpdate(3).status = "cancelled"

(***************************************************************************)
(* C12 as claimed: with maxEstimatedTokens = 100 and no other gate in the  *)
(* way, runChild is invoked for the first item and every remaining item    *)
(* ends cancelled with the token-budget message.                           *)
(***************************************************************************)
TokenBudgetIs100 == Has(budget, "maxEstimatedTokens") /\ budget.maxEstimatedTokens = 100
\* neither the cancellation gate nor the wall-time gate can stop an item
OnlyTokenGate == signal = "none" /\ ~(Has(budget, "maxWallMs") /\ budget.maxWallMs # 0)
IsTokenBudgetStop(s) == s.status = "cancelled" /\ s.error = MsgTokenBudget

C12_FirstItemAttempted ==
    (TokenBudgetIs100 /\ OnlyTokenGate /\ resolved) =>
        /\ Dispatched(1)
        /\ \A i \in Children \ {1} : calls[i] = <<>> /\ IsTokenBudgetStop(LastUpdate(i))

(***************************************************************************)
(* C12 as amended: with maxEstimatedTokens = 100 every plan item's         *)
(* estimate (never below 128) exceeds the budget, so no item is attempted: *)
(* runChild is never invoked, the token total stays 0, and every item, the *)
(* first one included, ends cancelled by its single update, which carries  *)
(* the token-budget message unless the cancellation gate or the wall-time  *)
(* gate stopped the item first.                                            *)
(***************************************************************************)
C12_NoItemAttempted ==
    TokenBudgetIs100 =>
        /\ estimatedTokensUsed = 0
        /\ \A i \in Children :
              /\ estimateTokens(plan[i].prompt) >= 128
              /\ calls[i] = <<>>
              /\ updates[i] # <<>> =>
                    /\ Len(updates[i]) = 1
                    /\ updates[i][1].status = "cancelled"
                    /\ updates[i][1].error \in {MsgParentCancelled, MsgWallBudget, MsgTokenBudget}
                    /\ OnlyTokenGate => IsTokenBudgetStop(updates[i][1])
              /\ resolved => updates[i] # <<>>

\* A three-item run with a budget of 100 tokens resolved: all three items, the
\* first included, were cancelled by the token gate.
C12_Witness ==
    /\ resolved
    /\ TokenBudgetIs100
    /\ Len(plan) = 3
    /\ \A i \in Children : IsTokenBudgetStop(LastUpdate(i))

(***************************************************************************)
(* C13 as claimed: with maxAgents = 1 a single worker processes all three  *)
(* plan items one after the other, never more than one runChild call is in *)
(* flight, and runChild is invoked at most 6 times in the run.             *)
(***************************************************************************)
InFlight(i) == Len(calls[i]) - Len(returns[i])
RECURSIVE TotalInFlight(_)
TotalInFlight(n) == IF n = 0 THEN 0 ELSE InFlight(n) + TotalInFlight(n - 1)
MaxAgentsIs1 == Has(options.swarm, "maxAgents") /\ options.swarm.maxAgents = 1

C13_SingleWorkerThreeItems ==
    MaxAgentsIs1 =>
        /\ DOMAIN pc = {1}
        /\ TotalInFlight(Len(plan)) <= 1
        /\ TotalCalls(Len(plan)) <= 6
        /\ resolved =>
              /\ Len(returned.childSummaries) = 3
              /\ \A i \in 1..3 : returned.childSummaries[i].role = Roles[i]

(***************************************************************************)
(* C13 as amended: with maxAgents = 1 the plan is truncated to its first   *)
(* item, the researcher, and a single worker processes that one item: the  *)
(* run returns one summary, never more than one runChild call is in        *)
(* flight, and runChild is invoked at most twice in the run.               *)
(***************************************************************************)
C13_SingleWorkerSingleItem ==
    MaxAgentsIs1 =>
        /\ DOMAIN pc = {1}
        /\ Len(plan) = 1 /\ plan[1].role = "researcher"
        /\ nextIndex <= 1
        /\ TotalInFlight(Len(plan)) <= 1
        /\ TotalCalls(Len(plan)) <= 2
        /\ resolved =>
              /\ Len(returned.childSummaries) = 1
              /\ returned.childSummaries[1].role = "researcher"

\* A run with maxAgents = 1 resolved after its only child was invoked twice.
C13_Witness ==
    /\ MaxAgentsIs1
    /\ resolved
    /\ Len(returned.childSummaries) = 1
    /\ TotalCalls(Len(plan)) = 2

(***************************************************************************)
(* C14 as claimed: when a run of several children resolves in which at     *)
(* least one child's runChild call returned a non-transient failure and    *)
(* every other child's returned completed, partial is true, childSummaries *)
(* has one entry per plan item, combinedOutput is made of the block of     *)
(* every completed child and of no block of a failed child, and the sink   *)
(* received a failed update for each failed child.                         *)
(***************************************************************************)
\* the children whose only runChild call returned a non-transient failure
FailedChildren ==
    {i \in Children : /\ Len(returns[i]) = 1
                      /\ returns[i][1].status = "failed"
                      /\ ~Transient(returns[i][1])}

SomeFailedOthersCompleted ==
    /\ resolved
    /\ Len(plan) >= 2
    /\ FailedChildren # {}
    /\ \A i \in Children \ FailedChildren :
          returns[i] # <<>> /\ LastReturn(i).status = "completed"

OneEntryPerPlanItem(list) ==
    /\ Len(list) = Len(plan)
    /\ \A i \in Children : \E k \in DOMAIN list : list[k].role = plan[i].role

ReceivedFailedUpdate(i) == \E k \in DOMAIN updates[i] : updates[i][k].status = "failed"

C14_PartialFailureAsClaimed ==
    SomeFailedOthersCompleted =>
        /\ returned.partial
        /\ OneEntryPerPlanItem(returned.childSummaries)
        /\ returned.combinedOutput \in BlocksOf(Children \ FailedChildren)
        /\ \A i \in FailedChildren : ReceivedFailedUpdate(i)

(***************************************************************************)
(* C14 as amended: the same, except that combinedOutput is made of the     *)
(* block of every completed child whose output is non-empty: a child that  *)
(* completed with an empty or missing output has no block, like the failed *)
(* child.                                                                  *)
(***************************************************************************)
C14_PartialFailure ==
    SomeFailedOthersCompleted =>
        /\ returned.partial
        /\ OneEntryPerPlanItem(returned.childSummaries)
        /\ returned.combinedOutput \in
              BlocksOf({i \in Children \ FailedChildren : NonEmpty(OutputOf(i))})
        /\ \A i \in FailedChildren :
              /\ ReceivedFailedUpdate(i)
              /\ LastUpdate(i).status = "failed"

\* The run of the integration test resolved: the researcher and the coder
\* completed with an output and the reviewer failed without being retried.
C14_Witness ==
    /\ SomeFailedOthersCompleted
    /\ Len(plan) = 3
    /\ FailedChildren = {3}
    /\ returns[3][1] = [status |-> "failed", error |-> <<"simulated", "failure">>,
                        transient |-> FALSE]
    /\ Len(outputs) = 2
    /\ options.prompt.text = "Build a release checklist"

(***************************************************************************)
(* C16: selectSwarmRoute looks only at the entries that are connected and  *)
(* have a selected model, and returns the first provider of the role's     *)
(* preference list that has such an entry, with the model of such an       *)
(* entry; otherwise the fallback pair when both its fields are present;    *)
(* otherwise the first such entry in snapshot order; otherwise null.  A    *)
(* ready preferred provider wins over a present fallback.                  *)
(***************************************************************************)
RoutePrefs == ROLE_PROVIDER_PREFERENCES[routeCall.role]
ReadyEntries ==
    {k \in DOMAIN routeCall.readyProviders :
        /\ routeCall.readyProviders[k].connectionStatus = "connected"
        /\ Has(routeCall.readyProviders[k], "selectedModelId")
        /\ routeCall.readyProviders[k].selectedModelId # ""}
ReadyPreferred ==
    {j \in DOMAIN RoutePrefs :
        \E k \in ReadyEntries : routeCall.readyProviders[k].providerId = RoutePrefs[j]}
FallbackPresent ==
    /\ Has(routeCall.fallback, "providerId") /\ routeCall.fallback.providerId # ""
    /\ Has(routeCall.fallback, "modelId") /\ routeCall.fallback.modelId # ""
PairOf(entry) == [providerId |-> entry.providerId, modelId |-> entry.selectedModelId]

C16_RoutePriority ==
    Has(routeCall, "route") =>
        IF ReadyPreferred # {}
        THEN LET j == CHOOSE a \in ReadyPreferred : \A b \in ReadyPreferred : a <= b
             IN  /\ Len(routeCall.route) = 1
                 /\ routeCall.route[1].providerId = RoutePrefs[j]
                 /\ \E k \in ReadyEntries :
                       routeCall.route[1] = PairOf(routeCall.readyProviders[k])
        ELSE IF FallbackPresent
        THEN routeCall.route = <<[providerId |-> routeCall.fallback.providerId,
                                  modelId |-> routeCall.fallback.modelId]>>
        ELSE IF ReadyEntries # {}
        THEN LET k == CHOOSE a \in ReadyEntries : \A b \in ReadyEntries : a <= b
             IN  routeCall.route = <<PairOf(routeCall.readyProviders[k])>>
        ELSE routeCall.route = <<>>

\* For the coder, behind a disconnected openai entry the snapshot has a ready
\* anthropic entry, the coder's first preference; a fallback is present, and the
\* route is the anthropic entry's pair.
C16_Witness ==
    /\ Has(routeCall, "route")
    /\ routeCall.role = "coder"
    /\ FallbackPresent
    /\ Len(routeCall.readyProviders) = 2
    /\ routeCall.readyProviders[1].providerId = "openai"
    /\ routeCall.readyProviders[1].connectionStatus = "disconnected"
    /\ routeCall.route = <<[providerId |-> "anthropic", modelId |-> "model-b"]>>

(***************************************************************************)
(* C17: at every moment the number of runChild calls invoked and not yet   *)
(* returned is at most W = min(clamped maxAgents, plan length), which is   *)
(* at most 3, and at most one of them belongs to any single child.         *)
(***************************************************************************)
ClampedMaxAgents ==
    IF RequestedAgents < 1 THEN 1 ELSE IF RequestedAgents > 3 THEN 3 ELSE RequestedAgents

C17_InFlightBounded ==
    LET W == IF ClampedMaxAgents < Len(plan) THEN ClampedMaxAgents ELSE Len(plan)
    IN  /\ W <= 3
        /\ \A i \in Children : InFlight(i) \in {0, 1}
        /\ TotalInFlight(Len(plan)) <= W
        \* each call in flight is awaited by a worker of its own
        /\ TotalInFlight(Len(plan)) = Cardinality({w \in DOMAIN pc : pc[w] = "awaitChild"})

\* Three calls are in flight at once, one of them a second attempt.
C17_Witness ==
    /\ TotalInFlight(Len(plan)) = 3
    /\ \E i \in Children : Retried(i) /\ InFlight(i) = 1

(***************************************************************************)
(* C18: under every interleaving of the workers the cursor only increases, *)
(* by one per claim, and each plan index is claimed exactly once, by one   *)
(* worker: an item starts to be executed only in the step that moves the   *)
(* cursor from its index to the next, no item is executed twice, none is   *)
(* skipped (when the run resolves every item was claimed), and no index at *)
(* or beyond the plan length is claimed.                                   *)
(***************************************************************************)
Claimed(i) == updates[i] # <<>>

C18_ClaimedOnce ==
    /\ nextIndex \in 0..Len(plan)
    /\ nextIndex = Len(summaries)
    /\ \A i \in Children : Claimed(i) <=> i <= nextIndex
    /\ \A k \in DOMAIN summaries : summaries[k].role = plan[k].role
    \* an item is executed once: one first update, attempts numbered 1 and 2
    /\ \A i \in Children :
          /\ \A k \in DOMAIN updates[i] : updates[i][k].status = "queued" => k = 1
          /\ \A k \in DOMAIN calls[i] : calls[i][k].attempt = k
    \* no two workers are inside the execution of the same item
    /\ \A v, w \in DOMAIN pc :
          (v # w /\ pc[v] = "awaitChild" /\ pc[w] = "awaitChild") =>
              local[v].index # local[w].index
    /\ resolved => nextIndex = Len(plan)

C18_ClaimStep ==
    /\ nextIndex' >= nextIndex
    /\ nextIndex' # nextIndex =>
          /\ nextIndex' = nextIndex + 1
          /\ nextIndex < Len(plan)
          /\ ~Claimed(nextIndex + 1)
          /\ updates'[nextIndex + 1] # <<>>
          /\ Cardinality({w \in DOMAIN pc : pc'[w] # pc[w]}) <= 1
    /\ \A i \in Children :
          (~Claimed(i) /\ updates'[i] # <<>>) => (nextIndex = i - 1 /\ nextIndex' = i)
    /\ summaries' # summaries =>
          (nextIndex' = nextIndex + 1 /\ Len(summaries') = Len(summaries) + 1)

C18_CursorClaims == [](C18_ClaimedOnce) /\ [][C18_ClaimStep]_vars

\* A three-item run resolved in which the item claimed last completed first and
\* the item claimed first was retried.
C18_Witness ==
    /\ resolved
    /\ nextIndex = 3
    /\ Len(outputs) = 3
    /\ outputs[1][2] = "reviewer"
    /\ Retried(1)

(***************************************************************************)
(* C19: whether a failed first attempt is retried is decided by the        *)
(* transient flag whenever the result carries one, and by the match of the *)
(* error text against the patterns only when it carries none: with         *)
(* transient = false there is no retry even if the text matches, with      *)
(* transient = true there is a retry even if the text does not match or is *)
(* missing, and with no flag and no error text there is no retry.          *)
(***************************************************************************)
\* the words of the modelled error texts that one of the patterns matches
\* ("timeouts" is no match: the patterns are bounded by \b)
MatchingWords == {"ECONNRESET", "Network", "Timeout", "aborted"}
TextMatches(r) == Has(r, "error") /\ \E k \in DOMAIN r.error : r.error[k] \in MatchingWords
FirstFailed(i) == returns[i] # <<>> /\ returns[i][1].status = "failed"

C19_FlagDecidesTransience ==
    \A i \in Children :
        FirstFailed(i) =>
            LET r == returns[i][1]
            IN  /\ Has(r, "transient") => (Retried(i) <=> r.transient)
                /\ ~Has(r, "transient") => (Retried(i) <=> TextMatches(r))
                /\ (Has(r, "transient") /\ ~r.transient /\ TextMatches(r)) => ~Retried(i)
                /\ (Has(r, "transient") /\ r.transient /\ ~TextMatches(r)) => Retried(i)
                /\ (~Has(r, "transient") /\ (~Has(r, "error") \/ r.error = <<>>)) =>
                      ~Retried(i)
                /\ ~Retried(i) => (Len(calls[i]) = 1 /\ LastUpdate(i).status = "failed")

\* A first attempt failed with transient = false and the error text "Network down",
\* which matches a pattern: the child ended failed after that one invocation.
C19_Witness ==
    \E i \in Children :
        /\ FirstFailed(i)
        /\ returns[i][1] = [status |-> "failed", error |-> <<"Network", "down">>,
                            transient |-> FALSE]
        /\ Len(calls[i]) = 1
        /\ LastUpdate(i).status = "failed"
        /\ resolved

(***************************************************************************)
(* C20: a timed_out or cancelled result of the first attempt ends the      *)
(* child with that status and runChild is never invoked for it again,      *)
(* whatever the result's transient flag or error text; a second attempt is *)
(* only ever made after a first result with status failed.                 *)
(***************************************************************************)
C20_OnlyFailedIsRetried ==
    \A i \in Children :
        returns[i] # <<>> =>
            /\ returns[i][1].status \in {"timed_out", "cancelled"} =>
                  /\ Len(calls[i]) = 1
                  /\ StatusesOf(i) = <<"queued", "running", returns[i][1].status>>
            /\ Retried(i) => returns[i][1].status = "failed"

\* The first attempt returned timed_out with transient = true and the error text
\* "Timeout", which matches a pattern; the run resolved after that one invocation.
C20_Witness ==
    \E i \in Children :
        /\ returns[i] = <<[status |-> "timed_out", error |-> <<"Timeout">>,
                           transient |-> TRUE]>>
        /\ Len(calls[i]) = 1
        /\ LastUpdate(i).status = "timed_out"
        /\ resolved

(***************************************************************************)
(* C21: in the step in which an item is claimed its gates are evaluated in *)
(* the order cancellation, wall-time budget, token budget, route, and the  *)
(* first one that trips decides the item's only update: an aborted signal  *)
(* gives the cancellation message whatever the budgets, a breached wall    *)
(* budget gives the wall-budget message even if the token budget is        *)
(* breached too, a breached budget gives cancelled and not the routing     *)
(* failure when there is no route either, and only an item that trips no   *)
(* gate is queued.                                                         *)
(***************************************************************************)
WallBreached ==
    /\ Has(budget, "maxWallMs") /\ budget.maxWallMs > 0
    /\ now >= budget.maxWallMs
TokenBreachedBy(i) ==
    /\ Has(budget, "maxEstimatedTokens") /\ budget.maxEstimatedTokens > 0
    /\ estimatedTokensUsed + estimateTokens(plan[i].prompt) > budget.maxEstimatedTokens
\* the message and status the claimed order gives item i in the current state
FirstGate(i) ==
    IF signal = "aborted" THEN <<"cancelled", MsgParentCancelled>>
    ELSE IF WallBreached THEN <<"cancelled", MsgWallBudget>>
    ELSE IF TokenBreachedBy(i) THEN <<"cancelled", MsgTokenBudget>>
    ELSE IF NoProviderNoFallback THEN <<"failed", MsgNoRoute>>
    ELSE <<"queued">>

C21_GateStep ==
    nextIndex' # nextIndex =>
        IF FirstGate(nextIndex + 1) = <<"queued">>
        THEN updates'[nextIndex + 1][1].status = "queued"
        ELSE /\ Len(updates'[nextIndex + 1]) = 1
             /\ updates'[nextIndex + 1][1].status = FirstGate(nextIndex + 1)[1]
             /\ updates'[nextIndex + 1][1].error = FirstGate(nextIndex + 1)[2]
             /\ calls'[nextIndex + 1] = <<>>

C21_GateOrder == [][C21_GateStep]_vars

\* The signal is aborted, the clock has reached the wall budget and the token
\* budget is below every estimate: the items are cancelled with the cancellation
\* message.
C21_Witness ==
    /\ resolved
    /\ signal = "aborted"
    /\ WallBreached
    /\ TokenBudgetIs100
    /\ \A i \in Children : IsParentCancelled(LastUpdate(i))

(***************************************************************************)
(* C22: an item stopped at a dispatch gate (its update carries one of the  *)
(* four gate messages) never has runChild invoked, gets exactly one sink   *)
(* call, which carries its terminal status (cancelled for the signal and   *)
(* the budgets, failed for the missing route), and never a queued or       *)
(* running update; an item whose first update is queued is one that was    *)
(* handed to runChild.                                                     *)
(***************************************************************************)
GateMessages == {MsgParentCancelled, MsgWallBudget, MsgTokenBudget, MsgNoRoute}
StoppedAtGate(i) ==
    \E k \in DOMAIN updates[i] :
        Has(updates[i][k], "error") /\ updates[i][k].error \in GateMessages

C22_GatedItemOneUpdate ==
    \A i \in Children :
        /\ StoppedAtGate(i) =>
              /\ calls[i] = <<>> /\ returns[i] = <<>>
              /\ Len(updates[i]) = 1
              /\ updates[i][1].status =
                    (IF updates[i][1].error = MsgNoRoute THEN "failed" ELSE "cancelled")
              /\ \A k \in DOMAIN updates[i] : updates[i][k].status \notin {"queued", "running"}
        /\ (updates[i] # <<>> /\ ~StoppedAtGate(i)) =>
              (updates[i][1].status = "queued" /\ Dispatched(i))

\* A run resolved in which one item was stopped by the token gate after two others
\* had been handed to runChild and one of those was retried.
C22_Witness ==
    /\ resolved
    /\ \E i, j \in Children :
          /\ StoppedAtGate(i) /\ LastUpdate(i).error = MsgTokenBudget
          /\ Retried(j)

(***************************************************************************)
(* C23: budgets are soft.  Once a child has passed its gates, a budget     *)
(* that is reached afterwards does not change its outcome: no budget       *)
(* update is ever reported for it, its call in flight stays in flight      *)
(* until runChild returns, a transient first failure is retried, and its   *)
(* terminal status is the one runChild returned.                           *)
(***************************************************************************)
Ended(i) == returns[i] # <<>> /\ Len(returns[i]) = Len(calls[i])

C23_Outcome(i) ==
    /\ \A k \in DOMAIN updates[i] :
          ~(Has(updates[i][k], "error")
               /\ updates[i][k].error \in {MsgWallBudget, MsgTokenBudget})
    /\ (FirstFailed(i) /\ Transient(returns[i][1])) => Retried(i)
    /\ IF Ended(i)
       THEN LastUpdate(i).status = LastReturn(i).status
       ELSE LastUpdate(i).status = "running" /\ InFlight(i) = 1

C23_BudgetsAreSoft ==
    \A i \in Children : Dispatched(i) => C23_Outcome(i)

\* The wall budget was reached while a child was in flight; its transient first
\* failure was retried all the same and it completed.
C23_Witness ==
    /\ resolved
    /\ WallBreached
    /\ \E i \in Children : Retried(i) /\ LastUpdate(i).status = "completed"

(***************************************************************************)
(* C24: the signal decides about an item only in the step that claims it.  *)
(* An item claimed while the signal is aborted is cancelled with the       *)
(* cancellation message and runChild is not invoked for it; an item        *)
(* claimed before is never cancelled by the orchestrator, whenever the     *)
(* signal is aborted afterwards: a transient first failure is still        *)
(* retried and the terminal status is the one runChild returned.           *)
(***************************************************************************)
C24_PassedEntry(i) ==
    /\ \A k \in DOMAIN updates[i] :
          ~(Has(updates[i][k], "error") /\ updates[i][k].error = MsgParentCancelled)
    /\ (FirstFailed(i) /\ Transient(returns[i][1])) => Retried(i)
    /\ Ended(i) => LastUpdate(i).status = LastReturn(i).status
    /\ ~Ended(i) => InFlight(i) = 1

C24_EntryStep ==
    nextIndex' # nextIndex =>
        IF signal = "aborted"
        THEN /\ Len(updates'[nextIndex + 1]) = 1
             /\ IsParentCancelled(updates'[nextIndex + 1][1])
             /\ calls'[nextIndex + 1] = <<>>
        ELSE ~IsParentCancelled(updates'[nextIndex + 1][1])

C24_NeverCancelledLater == \A i \in Children : Dispatched(i) => C24_PassedEntry(i)

C24_SignalReadAtEntry == [](C24_NeverCancelledLater) /\ [][C24_EntryStep]_vars

\* The signal was aborted after the first item had been handed to runChild: the
\* items claimed after the abort were cancelled, and the first one was retried
\* after the abort and completed.
C24_Witness ==
    /\ resolved
    /\ signal = "aborted" /\ ~abortedAtStart
    /\ Retried(1) /\ LastUpdate(1).status = "completed"
    /\ \A i \in Children \ {1} : IsParentCancelled(LastUpdate(i))
    /\ Len(plan) = 3

(***************************************************************************)
(* C25: the cumulative token total never decreases.  It changes only in    *)
(* the step that claims an item, by that item's estimate, so the estimate  *)
(* of a dispatched item is added once: not again for the retry and not     *)
(* taken back when the child fails, times out or is cancelled by runChild. *)
(* At every moment the total is the sum of the estimates of the items that *)
(* passed the budget gates.                                                *)
(***************************************************************************)
PassedBudgetGates(i) ==
    updates[i] # <<>> /\ (Dispatched(i) \/ updates[i][1].error = MsgNoRoute)
RECURSIVE EstimatesCounted(_)
EstimatesCounted(n) ==
    IF n = 0 THEN 0
    ELSE (IF PassedBudgetGates(n) THEN estimateTokens(plan[n].prompt) ELSE 0)
            + EstimatesCounted(n - 1)

C25_TotalIsSumOfEstimates == estimatedTokensUsed = EstimatesCounted(Len(plan))

C25_TotalStep ==
    /\ estimatedTokensUsed' >= estimatedTokensUsed
    /\ estimatedTokensUsed' # estimatedTokensUsed =>
          /\ nextIndex' = nextIndex + 1
          /\ estimatedTokensUsed' =
                estimatedTokensUsed + estimateTokens(plan[nextIndex + 1].prompt)
    /\ (\E i \in Children : Len(calls'[i]) = 2 /\ Len(calls[i]) = 1) =>
          estimatedTokensUsed' = estimatedTokensUsed
    /\ (\E i \in Children : returns'[i] # returns[i]) =>
          estimatedTokensUsed' = estimatedTokensUsed

C25_TokenTotalNeverDecreases ==
    [](C25_TotalIsSumOfEstimates) /\ [][C25_TotalStep]_vars

\* Three items of 128 tokens each were dispatched; one was retried and then
\* failed, and the total is still 3 * 128.
C25_Witness ==
    /\ resolved
    /\ Len(plan) = 3
    /\ estimatedTokensUsed = 384
    /\ \E i \in Children : Retried(i) /\ LastUpdate(i).status = "failed"

(***************************************************************************)
(* C26: the blocks of combinedOutput are in the order in which the         *)
(* children's completed results were received, not in plan order: the step *)
(* in which a completed result with an output is received puts that        *)
(* child's block behind all blocks received before, no other step touches  *)
(* the blocks, and combinedOutput is their trimmed join in that order.     *)
(***************************************************************************)
\* runChild returns a completed result with an output to child i in this step
CompletesWithOutput(i) ==
    /\ Len(returns'[i]) = Len(returns[i]) + 1
    /\ returns'[i][Len(returns'[i])].status = "completed"
    /\ Has(returns'[i][Len(returns'[i])], "output")
    /\ returns'[i][Len(returns'[i])].output # <<>>

C26_CompletionStep ==
    /\ \A i \in Children :
          CompletesWithOutput(i) =>
              outputs' = Append(outputs, Block(plan[i].role,
                                               returns'[i][Len(returns'[i])].output))
    /\ (\A i \in Children : ~CompletesWithOutput(i)) => outputs' = outputs

C26_JoinedInOrder == resolved => returned.combinedOutput = Trim(Join(outputs))

C26_CompletionOrder == [](C26_JoinedInOrder) /\ [][C26_CompletionStep]_vars

\* The reviewer completed first, the researcher last: combinedOutput has the
\* reviewer's block first and the researcher's last.
C26_Witness ==
    /\ resolved
    /\ Len(plan) = 3
    /\ returned.combinedOutput =
          <<"## ", "reviewer", "\n", "o", "k", "\n", "\n",
            "## ", "coder", "\n", "o", "k", "\n", "\n",
            "## ", "researcher", "\n", "o", "k">>

(***************************************************************************)
(* C27: for every child handed to runChild, the terminal status reported   *)
(* to the sink is the status of the last result runChild returned for it:  *)
(* the sink sees timed_out only for a child whose last result was          *)
(* timed_out, a returned completed is reported as completed, and until the *)
(* last call has returned no terminal status is reported.                  *)
(***************************************************************************)
C27_TerminalIsReturnedStatus ==
    \A i \in Children :
        Dispatched(i) =>
            /\ Ended(i) =>
                  /\ LastUpdate(i).status = LastReturn(i).status
                  /\ \A k \in 1..(Len(updates[i]) - 1) :
                        updates[i][k].status \notin TerminalStatuses
            /\ ~Ended(i) =>
                  \A k \in DOMAIN updates[i] : updates[i][k].status \notin TerminalStatuses
            /\ \A k \in DOMAIN updates[i] :
                  /\ updates[i][k].status = "timed_out" =>
                        (Ended(i) /\ LastReturn(i).status = "timed_out")
                  /\ (Ended(i) /\ LastReturn(i).status = "completed" /\ k = Len(updates[i])) =>
                        updates[i][k].status = "completed"

\* runChild returned cancelled with a matching error text: the sink was told
\* cancelled.
C27_Witness ==
    \E i \in Children :
        /\ resolved
        /\ returns[i] = <<[status |-> "cancelled", error |-> <<"aborted">>]>>
        /\ LastUpdate(i).status = "cancelled"

(***************************************************************************)
(* C28: the error of the terminal summary of a child that did not complete *)
(* is the error text runChild returned when that is non-empty, and         *)
(* otherwise 'Child task timed out' for timed_out and 'Child failed' for   *)
(* failed and for cancelled; it is never empty.  (An item stopped at a     *)
(* gate, for which runChild was not invoked, carries the gate's message,   *)
(* which is not empty either.)                                             *)
(***************************************************************************)
C28_ErrorMessage ==
    \A i \in Children :
      /\ \A k \in DOMAIN updates[i] :
            updates[i][k].status \in {"failed", "cancelled", "timed_out"} =>
                (Has(updates[i][k], "error") /\ updates[i][k].error # <<>>)
      /\ (Dispatched(i) /\ Ended(i) /\ LastReturn(i).status # "completed") =>
            LET r == LastReturn(i)
                s == LastUpdate(i)
            IN  /\ Has(s, "error") /\ s.error # <<>>
                /\ s.error =
                      (IF Has(r, "error") /\ r.error # <<>> THEN r.error
                       ELSE IF r.status = "timed_out" THEN <<"Child", "task", "timed", "out">>
                       ELSE <<"Child", "failed">>)

\* runChild returned failed with an empty error text: the summary says 'Child failed'.
C28_Witness ==
    \E i \in Children :
        /\ resolved
        /\ returns[i] = <<[status |-> "failed", error |-> <<>>]>>
        /\ LastUpdate(i).error = <<"Child", "failed">>

(***************************************************************************)
(* C29: all runChild requests of a child carry the same childId, role,     *)
(* prompt, providerId and modelId (the plan item's role and prompt and the *)
(* route selected for it) and the timeout of 10 minutes; attempt is 1 on   *)
(* the first request and 2 on the second; every sink update of the child   *)
(* names the childId, provider and model of its requests.                  *)
(***************************************************************************)
TenMinutesMs == 10 * 60 * 1000

C29_RequestFields ==
    \A i \in Children :
        Dispatched(i) =>
            LET first == calls[i][1]
                route == selectSwarmRoute(plan[i].role, options.readyProviders,
                                          options.parentModel)
            IN  /\ first.role = plan[i].role
                /\ first.prompt = plan[i].prompt
                /\ route # <<>>
                /\ first.providerId = route[1].providerId
                /\ first.modelId = route[1].modelId
                /\ \A k \in DOMAIN calls[i] :
                      /\ DOMAIN calls[i][k] = {"childId", "role", "prompt", "providerId",
                                                "modelId", "timeoutMs", "attempt"}
                      /\ calls[i][k].attempt = k
                      /\ calls[i][k].timeoutMs = TenMinutesMs
                      /\ \A f \in {"childId", "role", "prompt", "providerId", "modelId"} :
                            calls[i][k][f] = first[f]
                /\ \A k \in DOMAIN updates[i] :
                      \A f \in {"childId", "role", "providerId", "modelId"} :
                          updates[i][k][f] = first[f]
                /\ \A j \in Children : (j # i /\ Dispatched(j)) =>
                      calls[j][1].childId # first.childId

\* The reviewer was routed to lmstudio and the researcher to the fallback, and
\* both were invoked twice.
C29_Witness ==
    /\ resolved
    /\ Len(plan) = 3
    /\ Retried(1) /\ calls[1][2].providerId = "openai"
    /\ Retried(3) /\ calls[3][2].providerId = "lmstudio"
    /\ calls[3][2].attempt = 2

(***************************************************************************)
(* C30: when a positive token budget is set, the cumulative token total is *)
(* at most maxEstimatedTokens in every reachable state, whatever the order *)
(* in which the workers run: an item's estimate is added in the very step  *)
(* that checked it against the budget.                                     *)
(***************************************************************************)
PositiveTokenBudget == Has(budget, "maxEstimatedTokens") /\ budget.maxEstimatedTokens > 0

C30_WithinBudget == PositiveTokenBudget => estimatedTokensUsed <= budget.maxEstimatedTokens

C30_CheckAndAddStep ==
    (PositiveTokenBudget /\ estimatedTokensUsed' # estimatedTokensUsed) =>
        /\ nextIndex' = nextIndex + 1
        /\ estimatedTokensUsed + estimateTokens(plan[nextIndex + 1].prompt)
              <= budget.maxEstimatedTokens
        /\ estimatedTokensUsed' =
              estimatedTokensUsed + estimateTokens(plan[nextIndex + 1].prompt)

C30_TotalNeverExceedsBudget == [](C30_WithinBudget) /\ [][C30_CheckAndAddStep]_vars

\* With a budget of 300 tokens two items of 128 tokens were dispatched and the
\* third, which would have brought the total to 384, was stopped.
C30_Witness ==
    /\ resolved
    /\ Len(plan) = 3
    /\ PositiveTokenBudget /\ budget.maxEstimatedTokens = 300
    /\ estimatedTokensUsed = 256
    /\ Dispatched(1) /\ Dispatched(2)
    /\ IsTokenBudgetStop(LastUpdate(3))

(***************************************************************************)
(* C31: no summary with status completed that is handed to the sink        *)
(* carries an error, also when the child's first attempt failed            *)
(* transiently and its second attempt completed.                           *)
(***************************************************************************)
C31_CompletedHasNoError ==
    \A i \in Children :
        \A k \in DOMAIN updates[i] :
            updates[i][k].status = "completed" => ~Has(updates[i][k], "error")

(***************************************************************************)
(* C32: for every child, the status of its entry in the returned           *)
(* childSummaries is the status of the last update handed to the sink for  *)
(* that child.                                                             *)
(***************************************************************************)
EntryOf(i) ==
    returned.childSummaries[CHOOSE k \in DOMAIN returned.childSummaries :
                                returned.childSummaries[k].childId = updates[i][1].childId]

C32_ReturnedAgreesWithSink ==
    resolved => \A i \in Children : EntryOf(i).status = LastUpdate(i).status

(***************************************************************************)
(* C33 as claimed: there are as many workers as plan items, every item is  *)
(* claimed before any runChild call has returned, and no item that is      *)
(* claimed after the first runChild call was issued is cancelled.          *)
(***************************************************************************)
SomeCallReturned == \E j \in Children : returns[j] # <<>>

C33_WorkersAndItems ==
    /\ Cardinality(DOMAIN pc) = Len(plan)
    /\ SomeCallReturned => (nextIndex = Len(plan) /\ \A i \in Children : updates[i] # <<>>)

\* items are claimed in plan order, and a call is issued in the step that claims
\* its item: item i is claimed after a call was issued iff an earlier item was
\* handed to runChild
C33_NoCancelAfterFirstCall ==
    /\ C33_WorkersAndItems
    /\ \A i \in Children :
          (updates[i] # <<>> /\ \E j \in 1..(i - 1) : Dispatched(j)) =>
              updates[i][1].status # "cancelled"

(***************************************************************************)
(* C33 as amended: there are as many workers as plan items, every worker   *)
(* claims exactly one item, when it is started, and every item has passed  *)
(* its gates before any runChild call of the run has returned; so an abort *)
(* or a budget breach that occurs after a runChild call has returned never *)
(* cancels an item.  While the workers are started, after the first        *)
(* runChild call was issued, a later item can still be cancelled: by the   *)
(* token gate, by the clock reaching the wall budget, or by the signal.    *)
(***************************************************************************)
C33_ClaimStep ==
    /\ nextIndex' # nextIndex =>
          /\ ~SomeCallReturned
          /\ \E w \in DOMAIN pc :
                /\ pc[w] = "start" /\ pc'[w] # "start"
                /\ \A v \in DOMAIN pc \ {w} : pc'[v] = pc[v]
    /\ \A w \in DOMAIN pc : (pc[w] = "start" /\ pc'[w] # "start") => nextIndex' = nextIndex + 1
    /\ \A i \in Children :
          (Len(updates'[i]) > Len(updates[i])
              /\ updates'[i][Len(updates'[i])].status = "cancelled"
              /\ updates'[i][Len(updates'[i])].error \in GateMessages) => ~SomeCallReturned

C33_AllClaimedAtStart == [](C33_WorkersAndItems) /\ [][C33_ClaimStep]_vars

\* The first item was handed to runChild; then the clock reached the wall budget
\* and the second item was cancelled for it.
C33_Witness ==
    /\ resolved
    /\ Len(plan) = 2
    /\ Dispatched(1)
    /\ IsPrefix(<<"queued", "running">>, StatusesOf(1))
    /\ Gated(2) /\ LastUpdate(2).error = MsgWallBudget

(***************************************************************************)
(* C34: the entries of the returned childSummaries are in plan order       *)
(* (researcher, then coder, then reviewer, truncated to the plan length)   *)
(* in every run, whatever the order in which the run-child calls return:   *)
(* at every moment the array holds the summaries of the first items of the *)
(* plan, in plan order, and the result holds one entry per plan item.      *)
(***************************************************************************)
RolesOf(list) == [k \in DOMAIN list |-> list[k].role]
ReturnOrder == [k \in DOMAIN outputs |-> outputs[k][2]]

C34_PlanOrder ==
    /\ RolesOf(summaries) = SubSeq(Roles, 1, Len(summaries))
    /\ resolved => RolesOf(returned.childSummaries) = SubSeq(Roles, 1, Len(plan))

\* The three children returned in the order reviewer, coder, researcher, and
\* the result lists them as researcher, coder, reviewer.
C34_Witness ==
    /\ resolved
    /\ Len(plan) = 3
    /\ ReturnOrder = <<"reviewer", "coder", "researcher">>
    /\ RolesOf(returned.childSummaries) = Roles

(***************************************************************************)
(* C35: selectSwarmRoute returns null if and only if the snapshot has no   *)
(* ready provider and the fallback lacks a providerId or a modelId (an     *)
(* empty id counts as lacking); whether the result is null does not depend *)
(* on the role: for the same snapshot and fallback every role gets a route *)
(* or none does.                                                           *)
(***************************************************************************)
RoleSet == {Roles[i] : i \in DOMAIN Roles}
NullFor(role) == selectSwarmRoute(role, routeCall.readyProviders, routeCall.fallback) = <<>>

C35_NullIffNoRoute ==
    Has(routeCall, "route") =>
        /\ routeCall.route = <<>> <=> (ReadyEntries = {} /\ ~FallbackPresent)
        /\ \A r \in RoleSet : NullFor(r) <=> routeCall.route = <<>>

\* Null was returned for a snapshot of two entries, neither ready, and a
\* fallback that has a providerId and no modelId.
C35_Witness ==
    /\ Has(routeCall, "route")
    /\ routeCall.route = <<>>
    /\ Len(routeCall.readyProviders) = 2
    /\ routeCall.fallback = [providerId |-> "deepseek"]

(***************************************************************************)
(* C36: a plan item that fails routing leaves the cumulative estimated-    *)
(* token total unchanged: the total is the sum of the estimates of the     *)
(* items handed to runChild, and an item is cancelled for the token budget *)
(* only if the estimates of the items handed to runChild before it, plus   *)
(* its own, exceed the budget.                                             *)
(***************************************************************************)
RECURSIVE EstimatesDispatched(_)
EstimatesDispatched(n) ==
    IF n = 0 THEN 0
    ELSE (IF Dispatched(n) THEN estimateTokens(plan[n].prompt) ELSE 0)
            + EstimatesDispatched(n - 1)

C36_RoutingFailureIsFree ==
    /\ estimatedTokensUsed = EstimatesDispatched(Len(plan))
    /\ \A i \in Children :
          (updates[i] # <<>> /\ IsTokenBudgetStop(updates[i][1])) =>
              EstimatesDispatched(i - 1) + estimateTokens(plan[i].prompt)
                  > budget.maxEstimatedTokens

(***************************************************************************)
(* C37: a budget field whose value is 0 behaves like an absent field: with *)
(* maxEstimatedTokens = 0 no item is ever cancelled for the token budget,  *)
(* with maxWallMs = 0 no item is ever cancelled for the wall-time budget,  *)
(* and when every field is 0 or absent every item that is claimed under a  *)
(* signal that is not aborted reaches the routing step.                    *)
(***************************************************************************)
ZeroOrAbsent(field) == ~Has(budget, field) \/ budget[field] = 0
IsWallBudgetStop(s) == s.status = "cancelled" /\ s.error = MsgWallBudget

C37_ZeroIsNoBudget ==
    \A i \in Children : \A k \in DOMAIN updates[i] :
        /\ ZeroOrAbsent("maxEstimatedTokens") => ~IsTokenBudgetStop(updates[i][k])
        /\ ZeroOrAbsent("maxWallMs") => ~IsWallBudgetStop(updates[i][k])
        /\ (ZeroOrAbsent("maxEstimatedTokens") /\ ZeroOrAbsent("maxWallMs")) =>
              (IsParentCancelled(updates[i][k]) \/ (i - 1) \in routed)

\* Both fields are 0, the clock has advanced and the total holds both
\* estimates: both children were handed to runChild and the run resolved.
C37_Witness ==
    /\ resolved
    /\ Has(budget, "maxEstimatedTokens") /\ budget.maxEstimatedTokens = 0
    /\ Has(budget, "maxWallMs") /\ budget.maxWallMs = 0
    /\ Len(plan) = 2
    /\ Dispatched(1) /\ Dispatched(2)
    /\ now > 0
    /\ estimatedTokensUsed > 0

(***************************************************************************)
(* C38: every non-null route returned by selectSwarmRoute is either the    *)
(* (providerId, selectedModelId) pair of an entry of the snapshot that is  *)
(* connected and has a selected model, or exactly the caller's fallback    *)
(* pair; when no preferred provider is ready and the fallback has both     *)
(* fields, the fallback pair is returned whether or not its provider is in *)
(* the snapshot or connected.                                              *)
(***************************************************************************)
FallbackPair == [providerId |-> routeCall.fallback.providerId,
                 modelId |-> routeCall.fallback.modelId]

C38_RouteIsReadyPairOrFallback ==
    Has(routeCall, "route") =>
        /\ routeCall.route # <<>> =>
              /\ Len(routeCall.route) = 1
              /\ \/ \E k \in ReadyEntries :
                        routeCall.route[1] = PairOf(routeCall.readyProviders[k])
                 \/ FallbackPresent /\ routeCall.route[1] = FallbackPair
        /\ (ReadyPreferred = {} /\ FallbackPresent) => routeCall.route = <<FallbackPair>>

\* The only entry of the snapshot is a disconnected openrouter, and the
\* researcher is routed to the fallback pair, whose provider is openrouter.
C38_Witness ==
    /\ Has(routeCall, "route")
    /\ routeCall.role = "researcher"
    /\ routeCall.readyProviders =
          <<[providerId |-> "openrouter", connectionStatus |-> "disconnected",
             selectedModelId |-> "model-a"]>>
    /\ routeCall.route = <<[providerId |-> "openrouter", modelId |-> "parent-model"]>>

====
